---------------------------- MODULE Spec2Model ----------------------------
(***************************************************************************)
(* DIGIPIN encoder and decoder (src/index.ts): getDigiPin maps a latitude  *)
(* and a longitude to a 10-symbol code, getLatLngFromDigiPin maps a code   *)
(* back to the centre of its cell.                                         *)
(*                                                                         *)
(* Numbers.  TLC has only 32-bit integers, the program has IEEE doubles.   *)
(* Every value of the working rectangle is derived from BOUNDS by          *)
(* subtraction, division by 4, multiplication by 0..4 and addition, ten    *)
(* levels deep: it is a multiple of 2^-20 degree below 128, which a double *)
(* holds exactly.  The model therefore counts rectangle values in units of *)
(* 1/UnitsPerDegree degree (an integer, "U").  An input coordinate is a    *)
(* record [u, f] standing for (u + f/FracPerUnit) U, with 0 <= f <         *)
(* FracPerUnit: this holds every multiple of 2^-20 degree and every        *)
(* multiple of 10^-6 degree exactly.  lat - minLat is exact in doubles     *)
(* (the two are within a factor of the same binade and minLat is a         *)
(* multiple of the ulp of lat), and the quotient by the step is never      *)
(* rounded across an integer, so Math.floor of it is the floor of the      *)
(* exact quotient, which is what Floor computes.  A value returned by      *)
(* toFixed(6) is a count of 10^-6 degree.                                  *)
(*                                                                         *)
(* NaN.  An input coordinate may also be the value NaN.  Every comparison  *)
(* with NaN is false and every arithmetic result of NaN is NaN, so inside  *)
(* getDigiPin the locals computed from lat (row) or from lon (col, lonDiv, *)
(* minLon, maxLon) are NaN exactly when lat, respectively lon, is NaN: the *)
(* model decides by the input which of them hold NaN.                      *)
(*                                                                         *)
(* Strings are sequences of one-character strings (UTF-16 code units).     *)
(***************************************************************************)
EXTENDS Integers, Sequences, FiniteSets, TLC

VARIABLES CHAR_TO_POSITION, calls, visualizer

vars == <<CHAR_TO_POSITION, calls, visualizer>>

---------------------------------------------------------------------------
(* Program constants *)

DIGIPIN_GRID ==
  << <<"F", "C", "9", "8">>,
     <<"J", "3", "2", "7">>,
     <<"K", "4", "5", "6">>,
     <<"L", "M", "P", "T">> >>

DIGIPIN_LENGTH == 10

GRID_SIZE == 4

\* A slip of HYPHEN_POSITIONS: a hyphen after every third symbol.
HYPHEN_POSITIONS_EveryThird == {3, 6, 9}

HYPHEN_POSITIONS == {3, 6}

\* The number of decimals of toFixed(6).
DECIMALS == 6

---------------------------------------------------------------------------
(* Number representation *)

\* Units per degree: the finest cell side is 36 of them.
UnitsPerDegree == GRID_SIZE ^ DIGIPIN_LENGTH

MicroPerDegree == 10 ^ DECIMALS

\* 10^-6 degree = UnitNum / FracPerUnit units (2^14 / 5^6).
UnitNum == UnitsPerDegree \div (2 ^ DECIMALS)

FracPerUnit == MicroPerDegree \div (2 ^ DECIMALS)

\* n halves of a degree, in units: the literals 2.5, 38.5, 63.5, 99.5.
HalfDeg(n) == n * (UnitsPerDegree \div 2)

Num(u, f) == [u |-> u, f |-> f]

\* A rectangle value (an integer count of units) as a number.
OfUnits(x) == Num(x, 0)

\* The number written as the decimal literal m * 10^-6.
MicroToNum(m) ==
  LET q == m \div FracPerUnit
      r == m % FracPerUnit
  IN  Num(q * UnitNum + (r * UnitNum) \div FracPerUnit, (r * UnitNum) % FracPerUnit)

\* The value NaN of a coordinate or of a local computed from it.
NaN == [nan |-> TRUE]

IsNaN(a) == a = NaN

\* a < b and a > b of two numbers: false when either is NaN.
Lt(a, b) ==
  IF IsNaN(a) \/ IsNaN(b) THEN FALSE
  ELSE a.u < b.u \/ (a.u = b.u /\ a.f < b.f)

Gt(a, b) == Lt(b, a)

\* A slip of Floor: a whole quotient counts as the one below
\* (Math.ceil(q) - 1).
Floor_WholeBelow(a, x, d) ==
  IF a.f = 0 /\ (a.u - x) % d = 0 THEN (a.u - x) \div d - 1 ELSE (a.u - x) \div d

\* Math.floor((a - x) / d), x and d rectangle values, d > 0.
Floor(a, x, d) == (a.u - x) \div d

Min(a, b) == IF a < b THEN a ELSE b

Max(a, b) == IF a > b THEN a ELSE b

BOUNDS ==
  [minLat |-> HalfDeg(5), maxLat |-> HalfDeg(77),
   minLon |-> HalfDeg(127), maxLon |-> HalfDeg(199)]

---------------------------------------------------------------------------
(* Module initialisation: the character lookup map *)

\* Map.set: a later entry for the same key replaces the earlier one.
MapSet(m, k, v) == [x \in (DOMAIN m) \cup {k} |-> IF x = k THEN v ELSE m[x]]

EmptyMap == [x \in {} |-> x]

\* A slip of InitCharToPosition: row and column stored the wrong way round.
RECURSIVE InitCharToPosition_Swapped(_, _)
InitCharToPosition_Swapped(m, n) ==
  IF n >= GRID_SIZE * GRID_SIZE THEN m
  ELSE LET r == n \div GRID_SIZE
           c == n % GRID_SIZE
       IN  InitCharToPosition_Swapped(
             MapSet(m, DIGIPIN_GRID[r + 1][c + 1], [row |-> c, col |-> r]), n + 1)

\* The loops "for r ... for c ... CHAR_TO_POSITION.set(...)", n = 4*r + c.
RECURSIVE InitCharToPosition(_, _)
InitCharToPosition(m, n) ==
  IF n >= GRID_SIZE * GRID_SIZE THEN m
  ELSE LET r == n \div GRID_SIZE
           c == n % GRID_SIZE
       IN  InitCharToPosition(
             MapSet(m, DIGIPIN_GRID[r + 1][c + 1], [row |-> r, col |-> c]), n + 1)

---------------------------------------------------------------------------
(* Outcomes of a call *)

Returned(v) == [status |-> "returned", value |-> v]

\* throw new Error(message): the message as its literal parts and its holes.
Thrown(msg) == [status |-> "thrown", message |-> msg]

Last(s) == s[Len(s)]

---------------------------------------------------------------------------
(* getDigiPin *)

EncStart ==
  [level |-> 0, minLat |-> BOUNDS.minLat, maxLat |-> BOUNDS.maxLat,
   minLon |-> BOUNDS.minLon, maxLon |-> BOUNDS.maxLon, result |-> << >>,
   row |-> 0, col |-> 0]

\* A slip of EncRow: the row counted from the south, like the band.
EncRow_NoInversion(lat, minLat, latDiv) ==
  IF IsNaN(lat) THEN NaN ELSE Min(3, Max(0, Floor(lat, minLat, latDiv)))

\* A slip of EncRow: the inversion counts one row too many.
EncRow_OffByOne(lat, minLat, latDiv) ==
  IF IsNaN(lat) THEN NaN ELSE Min(3, Max(0, 4 - Floor(lat, minLat, latDiv)))

\* The row index of one level; Math.floor, -, Math.max and Math.min of NaN
\* are NaN.
EncRow(lat, minLat, latDiv) ==
  IF IsNaN(lat) THEN NaN ELSE Min(3, Max(0, 3 - Floor(lat, minLat, latDiv)))

\* A slip of EncCol: the column counted from the east.
EncCol_FromEast(lon, minLon, lonDiv) ==
  IF IsNaN(lon) THEN NaN ELSE Min(3, Max(0, 3 - Floor(lon, minLon, lonDiv)))

\* The column index of one level, NaN likewise.
EncCol(lon, minLon, lonDiv) ==
  IF IsNaN(lon) THEN NaN ELSE Min(3, Max(0, Floor(lon, minLon, lonDiv)))

\* The value of an array element that does not exist.
Undefined == "undefined"

\* DIGIPIN_GRID[row][col] for a row 0..3: col is NaN when lon is, and the
\* row has no element at NaN.
EncSymbol(lon, row, col) ==
  IF IsNaN(lon) THEN Undefined ELSE DIGIPIN_GRID[row + 1][col + 1]

\* The pushes of one level: the symbol, and a hyphen after the 3rd and 6th.
EncPush(result, level, symbol) ==
  LET pushed == Append(result, symbol)
  IN  IF (level + 1) \in HYPHEN_POSITIONS THEN Append(pushed, "-") ELSE pushed

\* min + div * k of one axis, NaN when the coordinate x of the axis is NaN.
EncBand(x, min, div, k) == IF IsNaN(x) THEN NaN ELSE min + div * k

\* result.join(''): an undefined element is rendered as the empty string.
Join(result) == SelectSeq(result, LAMBDA e : e # Undefined)

\* A slip of EncLevel: the next latitude band taken by row, not by 3 - row.
EncLevel_BandByRow(lat, lon, s) ==
  LET latDiv == (s.maxLat - s.minLat) \div GRID_SIZE
      lonDiv == (s.maxLon - s.minLon) \div GRID_SIZE
      row == EncRow(lat, s.minLat, latDiv)
      col == EncCol(lon, s.minLon, lonDiv)
      newMinLat == s.minLat + latDiv * row
      newMinLon == EncBand(lon, s.minLon, lonDiv, col)
  IN  [level |-> s.level + 1,
       minLat |-> newMinLat, maxLat |-> newMinLat + latDiv,
       minLon |-> newMinLon, maxLon |-> EncBand(lon, newMinLon, lonDiv, 1),
       result |-> EncPush(s.result, s.level, EncSymbol(lon, row, col)),
       row |-> row, col |-> col]

\* One iteration of the loop, for a lat that is a number.
EncLevel(lat, lon, s) ==
  LET latDiv == (s.maxLat - s.minLat) \div GRID_SIZE
      lonDiv == (s.maxLon - s.minLon) \div GRID_SIZE
      row == EncRow(lat, s.minLat, latDiv)
      col == EncCol(lon, s.minLon, lonDiv)
      newMinLat == s.minLat + latDiv * (3 - row)
      newMinLon == EncBand(lon, s.minLon, lonDiv, col)
  IN  [level |-> s.level + 1,
       minLat |-> newMinLat, maxLat |-> newMinLat + latDiv,
       minLon |-> newMinLon, maxLon |-> EncBand(lon, newMinLon, lonDiv, 1),
       result |-> EncPush(s.result, s.level, EncSymbol(lon, row, col)),
       row |-> row, col |-> col]

\* DIGIPIN_GRID[row] is undefined when row is NaN, and reading [col] of it
\* throws a TypeError; the text of its message is the engine's.
TypeErrorOfUndefined == <<"TypeError: cannot read a property of undefined">>

\* The loop: the loop's states, the first before level 0, and the message
\* thrown, or << >>.  A row that is NaN stops the loop at that level.
RECURSIVE EncLoop(_, _, _)
EncLoop(lat, lon, trace) ==
  IF Last(trace).level >= DIGIPIN_LENGTH THEN [trace |-> trace, message |-> << >>]
  ELSE IF IsNaN(lat) THEN [trace |-> trace, message |-> TypeErrorOfUndefined]
  ELSE EncLoop(lat, lon, Append(trace, EncLevel(lat, lon, Last(trace))))

\* A slip of EncValidate: only the upper bounds are checked.
EncValidate_NoLowerBound(lat, lon) ==
  IF Gt(lat, OfUnits(BOUNDS.maxLat))
  THEN <<"Latitude ", lat, " out of range [", BOUNDS.minLat, ", ", BOUNDS.maxLat, "]">>
  ELSE IF Gt(lon, OfUnits(BOUNDS.maxLon))
  THEN <<"Longitude ", lon, " out of range [", BOUNDS.minLon, ", ", BOUNDS.maxLon, "]">>
  ELSE << >>

\* A slip of EncValidate: the bounds themselves are refused (<= and >=).
EncValidate_Exclusive(lat, lon) ==
  IF ~Gt(lat, OfUnits(BOUNDS.minLat)) \/ ~Lt(lat, OfUnits(BOUNDS.maxLat))
  THEN <<"Latitude ", lat, " out of range [", BOUNDS.minLat, ", ", BOUNDS.maxLat, "]">>
  ELSE IF ~Gt(lon, OfUnits(BOUNDS.minLon)) \/ ~Lt(lon, OfUnits(BOUNDS.maxLon))
  THEN <<"Longitude ", lon, " out of range [", BOUNDS.minLon, ", ", BOUNDS.maxLon, "]">>
  ELSE << >>

\* A slip of EncValidate: the longitude is checked before the latitude.
EncValidate_LonFirst(lat, lon) ==
  IF Lt(lon, OfUnits(BOUNDS.minLon)) \/ Gt(lon, OfUnits(BOUNDS.maxLon))
  THEN <<"Longitude ", lon, " out of range [", BOUNDS.minLon, ", ", BOUNDS.maxLon, "]">>
  ELSE IF Lt(lat, OfUnits(BOUNDS.minLat)) \/ Gt(lat, OfUnits(BOUNDS.maxLat))
  THEN <<"Latitude ", lat, " out of range [", BOUNDS.minLat, ", ", BOUNDS.maxLat, "]">>
  ELSE << >>

\* The range checks: the message thrown, or << >>.
EncValidate(lat, lon) ==
  IF Lt(lat, OfUnits(BOUNDS.minLat)) \/ Gt(lat, OfUnits(BOUNDS.maxLat))
  THEN <<"Latitude ", lat, " out of range [", BOUNDS.minLat, ", ", BOUNDS.maxLat, "]">>
  ELSE IF Lt(lon, OfUnits(BOUNDS.minLon)) \/ Gt(lon, OfUnits(BOUNDS.maxLon))
  THEN <<"Longitude ", lon, " out of range [", BOUNDS.minLon, ", ", BOUNDS.maxLon, "]">>
  ELSE << >>

\* The call: its outcome and the loop's states.
getDigiPin(lat, lon) ==
  LET msg == EncValidate(lat, lon)
  IN  IF msg # << >>
      THEN [fn |-> "getDigiPin", lat |-> lat, lon |-> lon,
            out |-> Thrown(msg), trace |-> << >>]
      ELSE LET run == EncLoop(lat, lon, <<EncStart>>)
           IN  [fn |-> "getDigiPin", lat |-> lat, lon |-> lon,
                out |-> IF run.message # << >> THEN Thrown(run.message)
                        ELSE Returned(Join(Last(run.trace).result)),
                trace |-> run.trace]

---------------------------------------------------------------------------
(* getLatLngFromDigiPin *)

\* A slip of StripHyphens: replace without the g flag drops one hyphen only.
StripHyphens_First(digiPin) ==
  IF \E k \in DOMAIN digiPin : digiPin[k] = "-"
  THEN LET k == CHOOSE k \in DOMAIN digiPin :
                  digiPin[k] = "-" /\ \A j \in 1..(k - 1) : digiPin[j] # "-"
       IN  SubSeq(digiPin, 1, k - 1) \o SubSeq(digiPin, k + 1, Len(digiPin))
  ELSE digiPin

\* A slip of StripHyphens: the case is folded as the hyphens are dropped.
StripHyphens_UpperCase(digiPin) ==
  LET Fold(ch) ==
        CASE ch = "c" -> "C" [] ch = "f" -> "F" [] ch = "j" -> "J" [] ch = "k" -> "K"
          [] ch = "l" -> "L" [] ch = "m" -> "M" [] ch = "p" -> "P" [] ch = "t" -> "T"
          [] OTHER -> ch
      pin == SelectSeq(digiPin, LAMBDA ch : ch # "-")
  IN  [k \in DOMAIN pin |-> Fold(pin[k])]

\* digiPin.replace(/-/g, '')
StripHyphens(digiPin) == SelectSeq(digiPin, LAMBDA ch : ch # "-")

DecStart ==
  [i |-> 0, minLat |-> BOUNDS.minLat, maxLat |-> BOUNDS.maxLat,
   minLon |-> BOUNDS.minLon, maxLon |-> BOUNDS.maxLon]

\* A slip of DecLevel: the latitude band counted from the south.
DecLevel_RowFromSouth(position, s) ==
  LET row == position.row
      col == position.col
      latDiv == (s.maxLat - s.minLat) \div GRID_SIZE
      lonDiv == (s.maxLon - s.minLon) \div GRID_SIZE
  IN  [i |-> s.i + 1,
       minLat |-> s.minLat + latDiv * row,
       maxLat |-> s.minLat + latDiv * (row + 1),
       minLon |-> s.minLon + lonDiv * col,
       maxLon |-> s.minLon + lonDiv * (col + 1)]

\* A slip of DecLevel: the latitude band of the row above.
DecLevel_OffByOneRow(position, s) ==
  LET row == position.row
      col == position.col
      latDiv == (s.maxLat - s.minLat) \div GRID_SIZE
      lonDiv == (s.maxLon - s.minLon) \div GRID_SIZE
  IN  [i |-> s.i + 1,
       minLat |-> s.maxLat - latDiv * row,
       maxLat |-> s.maxLat - latDiv * (row - 1),
       minLon |-> s.minLon + lonDiv * col,
       maxLon |-> s.minLon + lonDiv * (col + 1)]

\* A slip of DecLevel: the longitude band counted from the east.
DecLevel_ColFromEast(position, s) ==
  LET row == position.row
      col == position.col
      latDiv == (s.maxLat - s.minLat) \div GRID_SIZE
      lonDiv == (s.maxLon - s.minLon) \div GRID_SIZE
  IN  [i |-> s.i + 1,
       minLat |-> s.maxLat - latDiv * (row + 1),
       maxLat |-> s.maxLat - latDiv * row,
       minLon |-> s.maxLon - lonDiv * (col + 1),
       maxLon |-> s.maxLon - lonDiv * col]

\* A slip of ToFixed: four decimals.
ToFixed_FourDecimals(halves) ==
  LET den == 2 * UnitNum
      q == halves \div den
      r == halves % den
      micro == q * FracPerUnit + (2 * r * FracPerUnit + den) \div (2 * den)
  IN  [type |-> "string", micro |-> ((micro + 50) \div 100) * 100]

\* One iteration of the loop, for a character the map holds.
DecLevel(position, s) ==
  LET row == position.row
      col == position.col
      latDiv == (s.maxLat - s.minLat) \div GRID_SIZE
      lonDiv == (s.maxLon - s.minLon) \div GRID_SIZE
  IN  [i |-> s.i + 1,
       minLat |-> s.maxLat - latDiv * (row + 1),
       maxLat |-> s.maxLat - latDiv * row,
       minLon |-> s.minLon + lonDiv * col,
       maxLon |-> s.minLon + lonDiv * (col + 1)]

\* A slip of InvalidCharacter: the position counted from 1.
InvalidCharacter_OneBased(char, i) ==
  <<"Invalid character '", char, "' at position ", i + 1, " in DIGIPIN">>

\* The message of the throw inside the loop.
InvalidCharacter(char, i) ==
  <<"Invalid character '", char, "' at position ", i, " in DIGIPIN">>

\* The loop: the loop's states and the message thrown, or << >>.
RECURSIVE DecLoop(_, _, _)
DecLoop(map, pin, trace) ==
  LET s == Last(trace)
  IN  IF s.i >= DIGIPIN_LENGTH THEN [trace |-> trace, message |-> << >>]
      ELSE LET char == pin[s.i + 1]
           IN  IF char \notin DOMAIN map
               THEN [trace |-> trace, message |-> InvalidCharacter(char, s.i)]
               ELSE DecLoop(map, pin, Append(trace, DecLevel(map[char], s)))

\* A slip of ToFixed: the digits after the sixth are cut off, not rounded.
ToFixed_Truncate(halves) ==
  LET den == 2 * UnitNum
      q == halves \div den
      r == halves % den
  IN  [type |-> "string",
       micro |-> q * FracPerUnit + (r * FracPerUnit) \div den]

\* x.toFixed(DECIMALS) of a rectangle-grid value x given in half units:
\* the nearest count of 10^-6 degree, the larger one on a tie.
ToFixed(halves) ==
  LET den == 2 * UnitNum
      q == halves \div den
      r == halves % den
  IN  [type |-> "string",
       micro |-> q * FracPerUnit + (2 * r * FracPerUnit + den) \div (2 * den)]

\* A slip of Center: the upper edge instead of the middle.
Center_UpperEdge(min, max) == max + max

\* (min + max) * 0.5, kept in half units.
Center(min, max) == min + max

DecResult(s) ==
  [latitude |-> ToFixed(Center(s.minLat, s.maxLat)),
   longitude |-> ToFixed(Center(s.minLon, s.maxLon))]

InvalidLength(n) == <<"Invalid DIGIPIN length: ", n, ", expected ", DIGIPIN_LENGTH>>

\* A slip of DecValidate: the length reported is that of the input, hyphens
\* included.
DecValidate_RawLength(digiPin, pin) ==
  IF Len(pin) # DIGIPIN_LENGTH THEN InvalidLength(Len(digiPin)) ELSE << >>

\* The length check: the message thrown, or << >>.
DecValidate(digiPin, pin) ==
  IF Len(pin) # DIGIPIN_LENGTH THEN InvalidLength(Len(pin)) ELSE << >>

\* The call: its outcome and the loop's states.
Decode(map, digiPin) ==
  LET pin == StripHyphens(digiPin)
      msg == DecValidate(digiPin, pin)
  IN  IF msg # << >>
      THEN [fn |-> "getLatLngFromDigiPin", digiPin |-> digiPin,
            out |-> Thrown(msg), trace |-> << >>]
      ELSE LET run == DecLoop(map, pin, <<DecStart>>)
           IN  [fn |-> "getLatLngFromDigiPin", digiPin |-> digiPin,
                out |-> IF run.message # << >> THEN Thrown(run.message)
                        ELSE Returned(DecResult(Last(run.trace))),
                trace |-> run.trace]

getLatLngFromDigiPin(digiPin) == Decode(CHAR_TO_POSITION, digiPin)

---------------------------------------------------------------------------
(* The callers' inputs *)

\* Final-level cells sampled from each edge of the bounding box.
MaxCell == 2

\* Hyphens a caller inserts into a code.
MaxHyphens == 2

\* Characters appended to a code to make it too long.
MaxExtra == 3

\* Calls of one chain: a call, then calls on the previous call's result.
MaxCalls == 2

\* The side of a final-level cell, in units.
CellSide == (BOUNDS.maxLat - BOUNDS.minLat) \div UnitsPerDegree

\* Offsets within a cell: its lower edge, around its centre, its last unit.
CellOffsets == {0, CellSide \div 2 - 1, CellSide \div 2, CellSide - 1}

\* Numbers around the grid lines of the cells nearest to lo and to hi,
\* on the lines, just above and just below them; on and just below the
\* first three grid lines of every level; and just outside [lo, hi].
GridSamples(lo, hi) ==
  { Num(lo + k * CellSide + d, f) :
      k \in 0..MaxCell, d \in CellOffsets, f \in {0, FracPerUnit - 1} }
  \cup
  { Num(hi - k * CellSide - d, f) :
      k \in 1..MaxCell, d \in {0, 1}, f \in {0, FracPerUnit - 1} }
  \cup
  { Num(lo + j * CellSide * GRID_SIZE ^ (DIGIPIN_LENGTH - k) - e, e * (FracPerUnit - 1)) :
      k \in 1..DIGIPIN_LENGTH, j \in 1..(GRID_SIZE - 1), e \in {0, 1} }
  \cup
  { Num(lo - 1, FracPerUnit - 1), Num(lo - CellSide, 0),
    Num(hi, 0), Num(hi, 1), Num(hi + CellSide, 0) }

\* Decimal literals: the tests' points, the first-level grid lines.
LatMicros ==
  { 18968557, 28613900, 12971600, 22572600, 40000000, 1000000,
    2500000, 38500000, 2499999, 38500001, 11500000, 11499999, 20500000, 29500001,
    19076000, 13082700, 17385000 }

LonMicros ==
  { 72822191, 77209000, 77594600, 88363900, 100000000, 60000000,
    63500000, 99500000, 63499999, 99500001, 72500000, 72499999, 81500000, 90500001,
    72877700, 80270700, 78486700 }

LatInputs ==
  GridSamples(BOUNDS.minLat, BOUNDS.maxLat) \cup { MicroToNum(m) : m \in LatMicros }
  \cup {NaN}

LonInputs ==
  GridSamples(BOUNDS.minLon, BOUNDS.maxLon) \cup { MicroToNum(m) : m \in LonMicros }
  \cup {NaN}

\* The symbols of the grid.
Alphabet == { DIGIPIN_GRID[r][c] : r \in 1..GRID_SIZE, c \in 1..GRID_SIZE }

\* Characters outside the grid.
OtherChars == {"X", "Z", "f", "0"}

\* The tests' code, without hyphens.
TestCode == <<"4", "F", "K", "5", "M", "K", "9", "P", "P", "K">>

Replace(s, p, ch) == [s EXCEPT ![p] = ch]

InsertAt(s, p, ch) == SubSeq(s, 1, p) \o <<ch>> \o SubSeq(s, p + 1, Len(s))

\* s with a hyphen inserted at each position of ps (positions of s, 0..Len(s),
\* in non-decreasing order).
RECURSIVE InsertHyphens(_, _)
InsertHyphens(s, ps) ==
  IF ps = << >> THEN s
  ELSE InsertHyphens(InsertAt(s, Last(ps), "-"), SubSeq(ps, 1, Len(ps) - 1))

\* The ways to insert 1..MaxHyphens hyphens into a string of length n.
HyphenPlaces(n) ==
  { ps \in UNION { [1..k -> 0..n] : k \in 1..MaxHyphens } :
      \A i \in 1..(Len(ps) - 1) : ps[i] <= ps[i + 1] }

\* The display grouping 3-3-4, as far as the string reaches.
Grouped(s) ==
  InsertHyphens(s, SelectSeq(<<3, 6>>, LAMBDA p : p < Len(s)))

RECURSIVE Repeat(_, _)
Repeat(ch, n) == IF n = 0 THEN << >> ELSE Append(Repeat(ch, n - 1), ch)

ValidCodes ==
  { TestCode }
  \cup { Repeat(ch, DIGIPIN_LENGTH) : ch \in Alphabet }
  \cup { Replace(TestCode, p, ch) : p \in 1..DIGIPIN_LENGTH, ch \in {"F", "T", "2"} }

\* Ten characters, one or two of them outside the grid.
BadSymbolCodes ==
  { Replace(TestCode, p, ch) : p \in 1..DIGIPIN_LENGTH, ch \in OtherChars }
  \cup { Replace(Replace(TestCode, p, "X"), q, "Z") :
           p \in 1..DIGIPIN_LENGTH, q \in 1..DIGIPIN_LENGTH }

\* Fewer or more than ten characters, with and without foreign characters.
BadLengthCodes ==
  { SubSeq(TestCode, 1, n) : n \in 0..(DIGIPIN_LENGTH - 1) }
  \cup { SubSeq(Replace(TestCode, 1, "X"), 1, n) : n \in 1..(DIGIPIN_LENGTH - 1) }
  \cup { TestCode \o Repeat(ch, n) : n \in 1..MaxExtra, ch \in {"X", "K"} }

\* The lower-case forms of the letters of the grid, and their upper case.
UpperCase ==
  [ch \in {"c", "f", "j", "k", "l", "m", "p", "t"} |->
     CASE ch = "c" -> "C" [] ch = "f" -> "F" [] ch = "j" -> "J" [] ch = "k" -> "K"
       [] ch = "l" -> "L" [] ch = "m" -> "M" [] ch = "p" -> "P" [] ch = "t" -> "T"]

LowerCase(ch) == CHOOSE lc \in DOMAIN UpperCase : UpperCase[lc] = ch

\* The tests' code and the one-letter codes, with one letter in lower case.
LowerCaseCodes ==
  { Replace(c, p, LowerCase(c[p])) :
      <<c, p>> \in { <<c, p>> \in
                       ({TestCode} \cup { Repeat(UpperCase[lc], DIGIPIN_LENGTH) :
                                            lc \in DOMAIN UpperCase })
                       \X (1..DIGIPIN_LENGTH) :
                       \E lc \in DOMAIN UpperCase : UpperCase[lc] = c[p] } }

PlainInputs == ValidCodes \cup BadSymbolCodes \cup BadLengthCodes

\* What a caller passes to getLatLngFromDigiPin first.
PinInputs ==
  PlainInputs \cup { Grouped(s) : s \in PlainInputs }
  \cup LowerCaseCodes \cup { Grouped(s) : s \in LowerCaseCodes }

---------------------------------------------------------------------------
(* DigipinVisualizer: the map page's grid layer *)

\* Coordinates of the map are counted in 10^-6 degree.
INDIA_BOUNDS ==
  [minLat |-> (5 * MicroPerDegree) \div 2, maxLat |-> (77 * MicroPerDegree) \div 2,
   minLon |-> (127 * MicroPerDegree) \div 2, maxLon |-> (199 * MicroPerDegree) \div 2]

\* minZoom of the tile layer.
MinZoom == 3

\* The largest zoom the map is taken to here.
MaxZoom == 9

\* The zoom of a new map and of the reset-view button.
InitialZoom == 5

\* The centre of a new map and of the reset-view button.
InitialCenter == [lat |-> 20593700, lon |-> 78962900]

\* The centres the map is moved to: the initial one, one on the northern
\* edge of INDIA_BOUNDS and the north-west corner of maxBounds.
Centers ==
  { InitialCenter,
    [lat |-> INDIA_BOUNDS.maxLat, lon |-> InitialCenter.lon],
    [lat |-> INDIA_BOUNDS.maxLat + 2 * MicroPerDegree,
     lon |-> INDIA_BOUNDS.minLon - 2 * MicroPerDegree] }

\* The views of the map: a zoom and a centre.
Views == [zoom : MinZoom..MaxZoom, center : Centers]

\* The side of the view at a zoom, halved by each zoom step; the container
\* shows 192 degrees at MinZoom.
ViewSpan(zoom) == (192 * MicroPerDegree) \div (2 ^ (zoom - MinZoom))

\* map.getBounds() of a view.
getBounds(view) ==
  LET half == ViewSpan(view.zoom) \div 2
  IN  [south |-> view.center.lat - half, north |-> view.center.lat + half,
       west |-> view.center.lon - half, east |-> view.center.lon + half]

\* The level updateGridLevel maps a zoom to.
LevelOfZoom(zoom) ==
  IF zoom <= 3 THEN 1
  ELSE IF zoom <= 4 THEN 2
  ELSE IF zoom <= 6 THEN 3
  ELSE IF zoom <= 8 THEN 4
  ELSE IF zoom <= 10 THEN 5
  ELSE IF zoom <= 12 THEN 6
  ELSE IF zoom <= 14 THEN 7
  ELSE IF zoom <= 16 THEN 8
  ELSE IF zoom <= 17 THEN 9
  ELSE 10

\* updateGridLevel: currentGridLevel follows the zoom.
updateGridLevel(v) ==
  LET newLevel == LevelOfZoom(v.view.zoom)
  IN  IF newLevel # v.currentGridLevel
      THEN [v EXCEPT !.currentGridLevel = newLevel]
      ELSE v

intersectsIndiaBounds(south, north, west, east) ==
  ~ (\/ east < INDIA_BOUNDS.minLon
     \/ west > INDIA_BOUNDS.maxLon
     \/ north < INDIA_BOUNDS.minLat
     \/ south > INDIA_BOUNDS.maxLat)

\* Math.sqrt of a square.
Sqrt(n) == CHOOSE d \in 1..n : d * d = n

\* The cell of row i and column j of the view's division.
GridCell(bounds, latStep, lonStep, i, j, level) ==
  LET south == bounds.south + i * latStep
      north == bounds.south + (i + 1) * latStep
      west == bounds.west + j * lonStep
      east == bounds.west + (j + 1) * lonStep
  IN  [bounds |-> << <<south, west>>, <<north, east>> >>,
       center |-> << (south + north) \div 2, (west + east) \div 2 >>,
       level |-> level]

\* calculateGridCells: the cells of the view that meet INDIA_BOUNDS, row by
\* row from the south-west.
calculateGridCells(bounds, zoom, level) ==
  LET maxCells == IF zoom <= 5 THEN 16 ELSE IF zoom <= 8 THEN 36 ELSE 64
      divisionsPerAxis == Sqrt(maxCells)
      latStep == (bounds.north - bounds.south) \div divisionsPerAxis
      lonStep == (bounds.east - bounds.west) \div divisionsPerAxis
      all == [k \in 1..maxCells |->
                GridCell(bounds, latStep, lonStep,
                         (k - 1) \div divisionsPerAxis,
                         (k - 1) % divisionsPerAxis, level)]
  IN  SelectSeq(all, LAMBDA cell :
        intersectsIndiaBounds(cell.bounds[1][1], cell.bounds[2][1],
                              cell.bounds[1][2], cell.bounds[2][2]))

\* gridLayer.clearLayers().
clearLayers(layer) == << >>

\* A slip of updateGrid: the test of gridVisible is missing.
updateGrid_Unguarded(v) ==
  [v EXCEPT !.gridLayer =
     clearLayers(v.gridLayer)
     \o calculateGridCells(getBounds(v.view), v.view.zoom, v.currentGridLevel)]

\* updateGrid: nothing when the grid is hidden; else the layer is cleared
\* and a rectangle is added to it for each cell of the current view.
updateGrid(v) ==
  IF ~ v.gridVisible THEN v
  ELSE [v EXCEPT !.gridLayer =
          clearLayers(v.gridLayer)
          \o calculateGridCells(getBounds(v.view), v.view.zoom,
                                v.currentGridLevel)]

\* new DigipinVisualizer(): the fields, then initializeMap, which draws the
\* grid once before any listener is registered.
NewDigipinVisualizer ==
  updateGrid([view |-> [zoom |-> InitialZoom, center |-> InitialCenter],
              gridLayer |-> << >>,
              currentGridLevel |-> 1,
              gridVisible |-> TRUE,
              event |-> "load"])

---------------------------------------------------------------------------
(* The callers: a chain of calls *)

Init ==
  /\ CHAR_TO_POSITION = InitCharToPosition(EmptyMap, 0)
  /\ calls = << >>
  /\ visualizer = NewDigipinVisualizer

\* A first call of getDigiPin.
CallGetDigiPin ==
  /\ calls = << >>
  /\ \E lat \in LatInputs, lon \in LonInputs :
       calls' = <<getDigiPin(lat, lon) @@ [link |-> "first"]>>
  /\ UNCHANGED <<CHAR_TO_POSITION, visualizer>>

\* A first call of getLatLngFromDigiPin.
CallGetLatLng ==
  /\ calls = << >>
  /\ \E digiPin \in PinInputs :
       calls' = <<getLatLngFromDigiPin(digiPin) @@ [link |-> "first"]>>
  /\ UNCHANGED <<CHAR_TO_POSITION, visualizer>>

\* ToNumber of a returned coordinate.
ToNumber(v) == MicroToNum(v.micro)

\* getLatLngFromDigiPin(getDigiPin(lat, lon)): decode the code just returned.
CallGetLatLngOfResult ==
  /\ calls # << >>
  /\ Len(calls) < MaxCalls
  /\ Last(calls).fn = "getDigiPin"
  /\ Last(calls).out.status = "returned"
  /\ calls' = Append(calls,
       getLatLngFromDigiPin(Last(calls).out.value) @@ [link |-> "result"])
  /\ UNCHANGED <<CHAR_TO_POSITION, visualizer>>

\* getDigiPin(c.latitude, c.longitude): encode the point just returned.
CallGetDigiPinOfResult ==
  /\ calls # << >>
  /\ Len(calls) < MaxCalls
  /\ Last(calls).fn = "getLatLngFromDigiPin"
  /\ Last(calls).out.status = "returned"
  /\ calls' = Append(calls,
       getDigiPin(ToNumber(Last(calls).out.value.latitude),
                  ToNumber(Last(calls).out.value.longitude)) @@ [link |-> "result"])
  /\ UNCHANGED <<CHAR_TO_POSITION, visualizer>>

\* Decode the string just decoded again, with hyphens inserted.
CallGetLatLngHyphenated ==
  /\ calls # << >>
  /\ Len(calls) < MaxCalls
  /\ Last(calls).fn = "getLatLngFromDigiPin"
  /\ Last(calls).digiPin \in PlainInputs
  /\ \E ps \in HyphenPlaces(Len(Last(calls).digiPin)) :
       calls' = Append(calls,
         getLatLngFromDigiPin(InsertHyphens(Last(calls).digiPin, ps))
           @@ [link |-> "hyphenated"])
  /\ UNCHANGED <<CHAR_TO_POSITION, visualizer>>

\* The codes that differ from a code in one symbol.
OtherCodes(code) ==
  { Replace(code, p, ch) : p \in DOMAIN code, ch \in Alphabet } \ {code}

\* Decode a neighbour of the code decoded first: one symbol changed.
CallGetLatLngOfOther ==
  /\ Len(calls) = 1
  /\ Len(calls) < MaxCalls
  /\ Last(calls).fn = "getLatLngFromDigiPin"
  /\ Last(calls).digiPin \in ValidCodes
  /\ \E digiPin \in OtherCodes(Last(calls).digiPin) :
       calls' = Append(calls, getLatLngFromDigiPin(digiPin) @@ [link |-> "other"])
  /\ UNCHANGED <<CHAR_TO_POSITION, visualizer>>

\* The longitudes and latitudes of the first point of a pair of points:
\* those of the tests' point.
PairLons == { MicroToNum(72822191) }

PairLats == { MicroToNum(18968557) }

\* Encode a second point north or south of the point encoded first, or
\* east or west of it.
CallGetDigiPinOfOther ==
  /\ Len(calls) = 1
  /\ Len(calls) < MaxCalls
  /\ Last(calls).fn = "getDigiPin"
  /\ \/ /\ Last(calls).lon \in PairLons
        /\ \E lat \in LatInputs :
             calls' = Append(calls,
               getDigiPin(lat, Last(calls).lon) @@ [link |-> "other"])
     \/ /\ Last(calls).lat \in PairLats
        /\ \E lon \in LonInputs :
             calls' = Append(calls,
               getDigiPin(Last(calls).lat, lon) @@ [link |-> "other"])
  /\ UNCHANGED <<CHAR_TO_POSITION, visualizer>>

Next ==
  \/ CallGetDigiPin
  \/ CallGetLatLng
  \/ CallGetLatLngOfResult
  \/ CallGetDigiPinOfResult
  \/ CallGetLatLngHyphenated
  \/ CallGetLatLngOfOther
  \/ CallGetDigiPinOfOther

Spec == Init /\ [][Next]_vars

---------------------------------------------------------------------------
(* The calls step by step: several calls in progress at once *)

\* Calls in progress or finished at once.
MaxProcs == 2

\* What the callers pass: the tests' point, the north-east corner, a
\* latitude that is NaN, a latitude out of range.
StepPoints ==
  { <<MicroToNum(18968557), MicroToNum(72822191)>>,
    <<OfUnits(BOUNDS.maxLat), OfUnits(BOUNDS.maxLon)>>,
    <<NaN, MicroToNum(72822191)>>,
    <<MicroToNum(40000000), MicroToNum(72822191)>> }

\* The tests' code grouped, FFFFFFFFFF, a foreign third character, a code
\* that is too short.
StepPins ==
  { Grouped(TestCode), Repeat("F", DIGIPIN_LENGTH), Replace(TestCode, 3, "X"),
    SubSeq(Grouped(TestCode), 1, 7) }

Running == [status |-> "running"]

\* A slip of Locals: the loop variables live at module level, one set for
\* all the calls of a function, holding what the latest call put there.
Locals_Shared(cs, p) ==
  LET same == { q \in DOMAIN cs : cs[q].fn = cs[p].fn /\ cs[q].out = Running }
  IN  Last(cs[CHOOSE q \in same : \A r \in same : r <= q].trace)

\* The loop variables of call p: declared with let inside the function,
\* each call has its own.
Locals(cs, p) == Last(cs[p].trace)

\* getDigiPin is entered: the range checks, then the locals.
StartGetDigiPin ==
  /\ Len(calls) < MaxProcs
  /\ \E pt \in StepPoints :
       LET msg == EncValidate(pt[1], pt[2])
       IN  calls' = Append(calls,
             [fn |-> "getDigiPin", lat |-> pt[1], lon |-> pt[2],
              out |-> IF msg # << >> THEN Thrown(msg) ELSE Running,
              trace |-> IF msg # << >> THEN << >> ELSE <<EncStart>>])
  /\ UNCHANGED <<CHAR_TO_POSITION, visualizer>>

\* One iteration of the loop of a getDigiPin in progress.
StepGetDigiPin ==
  /\ \E p \in DOMAIN calls :
       /\ calls[p].fn = "getDigiPin"
       /\ calls[p].out = Running
       /\ Locals(calls, p).level < DIGIPIN_LENGTH
       /\ calls' =
            [calls EXCEPT ![p] =
               IF IsNaN(calls[p].lat)
               THEN [@ EXCEPT !.out = Thrown(TypeErrorOfUndefined)]
               ELSE [@ EXCEPT !.trace =
                       Append(@, EncLevel(calls[p].lat, calls[p].lon, Locals(calls, p)))]]
  /\ UNCHANGED <<CHAR_TO_POSITION, visualizer>>

\* The loop of a getDigiPin is over: return result.join('').
ReturnGetDigiPin ==
  /\ \E p \in DOMAIN calls :
       /\ calls[p].fn = "getDigiPin"
       /\ calls[p].out = Running
       /\ Locals(calls, p).level >= DIGIPIN_LENGTH
       /\ calls' = [calls EXCEPT ![p].out = Returned(Join(Locals(calls, p).result))]
  /\ UNCHANGED <<CHAR_TO_POSITION, visualizer>>

\* getLatLngFromDigiPin is entered: the hyphens, the length, the locals.
StartGetLatLng ==
  /\ Len(calls) < MaxProcs
  /\ \E digiPin \in StepPins :
       LET msg == DecValidate(digiPin, StripHyphens(digiPin))
       IN  calls' = Append(calls,
             [fn |-> "getLatLngFromDigiPin", digiPin |-> digiPin,
              out |-> IF msg # << >> THEN Thrown(msg) ELSE Running,
              trace |-> IF msg # << >> THEN << >> ELSE <<DecStart>>])
  /\ UNCHANGED <<CHAR_TO_POSITION, visualizer>>

\* One iteration of the loop of a getLatLngFromDigiPin in progress.
StepGetLatLng ==
  /\ \E p \in DOMAIN calls :
       /\ calls[p].fn = "getLatLngFromDigiPin"
       /\ calls[p].out = Running
       /\ Locals(calls, p).i < DIGIPIN_LENGTH
       /\ LET s == Locals(calls, p)
              char == StripHyphens(calls[p].digiPin)[s.i + 1]
          IN  calls' =
                [calls EXCEPT ![p] =
                   IF char \notin DOMAIN CHAR_TO_POSITION
                   THEN [@ EXCEPT !.out = Thrown(InvalidCharacter(char, s.i))]
                   ELSE [@ EXCEPT !.trace =
                           Append(@, DecLevel(CHAR_TO_POSITION[char], s))]]
  /\ UNCHANGED <<CHAR_TO_POSITION, visualizer>>

\* The loop of a getLatLngFromDigiPin is over: return the centre.
ReturnGetLatLng ==
  /\ \E p \in DOMAIN calls :
       /\ calls[p].fn = "getLatLngFromDigiPin"
       /\ calls[p].out = Running
       /\ Locals(calls, p).i >= DIGIPIN_LENGTH
       /\ calls' = [calls EXCEPT ![p].out = Returned(DecResult(Locals(calls, p)))]
  /\ UNCHANGED <<CHAR_TO_POSITION, visualizer>>

NextSteps ==
  \/ StartGetDigiPin
  \/ StepGetDigiPin
  \/ ReturnGetDigiPin
  \/ StartGetLatLng
  \/ StepGetLatLng
  \/ ReturnGetLatLng

SpecSteps == Init /\ [][NextSteps]_vars

---------------------------------------------------------------------------
(* The copies of getDigiPin: the typed variant and the browser's inline copy *)

\* The table of the typed variant.
Typed_DIGIPIN_GRID ==
  << <<"F", "C", "9", "8">>,
     <<"J", "3", "2", "7">>,
     <<"K", "4", "5", "6">>,
     <<"L", "M", "P", "T">> >>

\* The table of the inline copy.
DIGIPIN_GRID_CHARS ==
  << <<"F", "C", "9", "8">>,
     <<"J", "3", "2", "7">>,
     <<"K", "4", "5", "6">>,
     <<"L", "M", "P", "T">> >>

\* What result += undefined appends to a string.
UndefinedText == <<"u", "n", "d", "e", "f", "i", "n", "e", "d">>

\* row = Math.floor(latOffset / latDiv); row = row > 3 ? 3 : row;
\* row = 3 - row; row = row < 0 ? 0 : row.  Every comparison with NaN is
\* false, so NaN stays NaN.
CopyRow(lat, minLat, latDiv) ==
  IF IsNaN(lat) THEN NaN
  ELSE LET floored == Floor(lat, minLat, latDiv)
           capped == IF floored > 3 THEN 3 ELSE floored
           inverted == 3 - capped
       IN  IF inverted < 0 THEN 0 ELSE inverted

\* col = Math.floor(lonOffset / lonDiv); col = col > 3 ? 3 : col;
\* col = col < 0 ? 0 : col.
CopyCol(lon, minLon, lonDiv) ==
  IF IsNaN(lon) THEN NaN
  ELSE LET floored == Floor(lon, minLon, lonDiv)
           capped == IF floored > 3 THEN 3 ELSE floored
       IN  IF capped < 0 THEN 0 ELSE capped

\* result += grid[row][col], and a hyphen for level 2 and level 5.  The
\* row has no element at NaN, and undefined is appended as its text.
CopyAppend(grid, lon, result, level, row, col) ==
  LET appended ==
        IF IsNaN(lon) THEN result \o UndefinedText
        ELSE Append(result, grid[row + 1][col + 1])
  IN  IF level = 2 \/ level = 5 THEN Append(appended, "-") ELSE appended

\* One iteration of the loop of a copy, for a lat that is a number; the
\* steps are range * 0.25, which is exact.
CopyLevel(grid, lat, lon, s) ==
  LET latRange == s.maxLat - s.minLat
      lonRange == s.maxLon - s.minLon
      latDiv == latRange \div 4
      lonDiv == lonRange \div 4
      row == CopyRow(lat, s.minLat, latDiv)
      col == CopyCol(lon, s.minLon, lonDiv)
      newMinLat == s.minLat + latDiv * (3 - row)
      newMinLon == EncBand(lon, s.minLon, lonDiv, col)
  IN  [level |-> s.level + 1,
       minLat |-> newMinLat, maxLat |-> newMinLat + latDiv,
       minLon |-> newMinLon, maxLon |-> EncBand(lon, newMinLon, lonDiv, 1),
       result |-> CopyAppend(grid, lon, s.result, s.level, row, col),
       row |-> row, col |-> col]

\* The loop of a copy: grid[NaN] is undefined, reading [col] of it throws.
RECURSIVE CopyLoop(_, _, _, _)
CopyLoop(grid, lat, lon, trace) ==
  IF Last(trace).level >= DIGIPIN_LENGTH THEN [trace |-> trace, message |-> << >>]
  ELSE IF IsNaN(lat) THEN [trace |-> trace, message |-> TypeErrorOfUndefined]
  ELSE CopyLoop(grid, lat, lon, Append(trace, CopyLevel(grid, lat, lon, Last(trace))))

\* The range checks of a copy: the message thrown, or << >>.
CopyValidate(lat, lon) ==
  IF Lt(lat, OfUnits(BOUNDS.minLat)) \/ Gt(lat, OfUnits(BOUNDS.maxLat))
  THEN <<"Latitude ", lat, " out of range [", BOUNDS.minLat, ", ", BOUNDS.maxLat, "]">>
  ELSE IF Lt(lon, OfUnits(BOUNDS.minLon)) \/ Gt(lon, OfUnits(BOUNDS.maxLon))
  THEN <<"Longitude ", lon, " out of range [", BOUNDS.minLon, ", ", BOUNDS.maxLon, "]">>
  ELSE << >>

\* A call of a copy: its outcome and the loop's states.
CopyGetDigiPin(copy, grid, lat, lon) ==
  LET msg == CopyValidate(lat, lon)
  IN  IF msg # << >>
      THEN [fn |-> "getDigiPin", copy |-> copy, lat |-> lat, lon |-> lon,
            out |-> Thrown(msg), trace |-> << >>]
      ELSE LET run == CopyLoop(grid, lat, lon, <<EncStart>>)
           IN  [fn |-> "getDigiPin", copy |-> copy, lat |-> lat, lon |-> lon,
                out |-> IF run.message # << >> THEN Thrown(run.message)
                        ELSE Returned(Last(run.trace).result),
                trace |-> run.trace]

\* getDigiPin of the typed variant.
Typed_getDigiPin(lat, lon) == CopyGetDigiPin("typed", Typed_DIGIPIN_GRID, lat, lon)

\* getDigiPin of the inline copy: the same statements over its own table.
Inline_getDigiPin(lat, lon) == CopyGetDigiPin("inline", DIGIPIN_GRID_CHARS, lat, lon)

\* The same point is given to the typed variant.
CallTypedGetDigiPin ==
  /\ Len(calls) = 1
  /\ Last(calls).fn = "getDigiPin"
  /\ calls' = Append(calls,
       Typed_getDigiPin(Last(calls).lat, Last(calls).lon) @@ [link |-> "same"])
  /\ UNCHANGED <<CHAR_TO_POSITION, visualizer>>

\* The same point is given to the inline copy.
CallInlineGetDigiPin ==
  /\ Len(calls) = 2
  /\ Last(calls).fn = "getDigiPin"
  /\ calls' = Append(calls,
       Inline_getDigiPin(Last(calls).lat, Last(calls).lon) @@ [link |-> "same"])
  /\ UNCHANGED <<CHAR_TO_POSITION, visualizer>>

NextCopies ==
  \/ CallGetDigiPin
  \/ CallTypedGetDigiPin
  \/ CallInlineGetDigiPin

SpecCopies == Init /\ [][NextCopies]_vars

---------------------------------------------------------------------------
(* DigipinVisualizer: the events of the map page *)

\* The map takes another view: a drag, a zoom, the animation of a setView
\* (of handleCellClick too).  No listener of the grid runs.
MapMoves ==
  /\ \E view \in Views :
       /\ view # visualizer.view
       /\ visualizer' = [visualizer EXCEPT !.view = view, !.event = "move"]
  /\ UNCHANGED <<CHAR_TO_POSITION, calls>>

\* The reset-view button: map.setView to the initial view.
ResetViewClick ==
  /\ visualizer' =
       [visualizer EXCEPT !.view = [zoom |-> InitialZoom, center |-> InitialCenter],
                          !.event = "reset-view"]
  /\ UNCHANGED <<CHAR_TO_POSITION, calls>>

\* The listener of zoomend.
OnZoomEnd ==
  /\ visualizer' =
       [updateGrid(updateGridLevel(visualizer)) EXCEPT !.event = "zoomend"]
  /\ UNCHANGED <<CHAR_TO_POSITION, calls>>

\* The listener of moveend.
OnMoveEnd ==
  /\ visualizer' = [updateGrid(visualizer) EXCEPT !.event = "moveend"]
  /\ UNCHANGED <<CHAR_TO_POSITION, calls>>

\* The listener of the toggle-grid button.
OnToggleGridClick ==
  LET toggled == [visualizer EXCEPT !.gridVisible = ~ visualizer.gridVisible]
  IN  /\ visualizer' =
           [(IF toggled.gridVisible THEN updateGrid(toggled)
             ELSE [toggled EXCEPT !.gridLayer = clearLayers(toggled.gridLayer)])
            EXCEPT !.event = "toggle-grid"]
      /\ UNCHANGED <<CHAR_TO_POSITION, calls>>

NextGrid ==
  \/ MapMoves
  \/ ResetViewClick
  \/ OnZoomEnd
  \/ OnMoveEnd
  \/ OnToggleGridClick

SpecGrid == Init /\ [][NextGrid]_vars

---------------------------------------------------------------------------
(* Vocabulary of the properties *)

\* The literals of the interval [2.5, 38.5] x [63.5, 99.5].
LatLo == OfUnits(HalfDeg(5))

LatHi == OfUnits(HalfDeg(77))

LonLo == OfUnits(HalfDeg(127))

LonHi == OfUnits(HalfDeg(199))

Le(a, b) == ~IsNaN(a) /\ (a = b \/ Lt(a, b))

LatInRange(lat) == Le(LatLo, lat) /\ Le(lat, LatHi)

LonInRange(lon) == Le(LonLo, lon) /\ Le(lon, LonHi)

\* The calls of each function made so far.
Encodes == { i \in DOMAIN calls : calls[i].fn = "getDigiPin" }

Decodes == { i \in DOMAIN calls : calls[i].fn = "getLatLngFromDigiPin" }

\* The round trips made so far: call i encodes a point of the bounding
\* box, call i + 1 decodes what it returned.
RoundTrips ==
  { i \in Encodes :
      /\ LatInRange(calls[i].lat) /\ LonInRange(calls[i].lon)
      /\ i + 1 \in Decodes /\ calls[i + 1].link = "result" }

\* |a - b| in 1/FracPerUnit units, capped at one 2^-6 degree.
Dist(a, b) ==
  LET du == IF a.u >= b.u THEN a.u - b.u ELSE b.u - a.u
      d == (a.u - b.u) * FracPerUnit + (a.f - b.f)
  IN  IF du >= UnitNum THEN UnitNum * FracPerUnit
      ELSE IF d >= 0 THEN d ELSE 0 - d

\* Half the side of a final-level cell, 10^-6 degree and 10^-4 degree,
\* in 1/FracPerUnit units.
HalfCell == (CellSide * FracPerUnit) \div 2

MicroDegree == UnitNum

TenThousandth == 100 * MicroDegree

\* The characters of s that are not hyphens, in order.
Symbols(s) == SelectSeq(s, LAMBDA ch : ch # "-")

\* A code of 10 symbols grouped 3-3-4: 12 characters, hyphens at the
\* zero-based positions 3 and 7.
WellFormed(code) ==
  /\ Len(code) = 12
  /\ \A i \in 1..12 :
       IF i \in {4, 8} THEN code[i] = "-" ELSE code[i] \in Alphabet

---------------------------------------------------------------------------
(* C1: round trip *)

\* C1 as stated: in every round trip getLatLngFromDigiPin(getDigiPin(lat,
\* lon)) the returned latitude and longitude each differ from the input by
\* at most half the side of a final-level cell.
C1_RoundTripHalfCell ==
  \A i \in RoundTrips :
    /\ calls[i + 1].out.status = "returned"
    /\ Dist(ToNumber(calls[i + 1].out.value.latitude), calls[i].lat) <= HalfCell
    /\ Dist(ToNumber(calls[i + 1].out.value.longitude), calls[i].lon) <= HalfCell

\* C1 amended: in every round trip the decoder returns a point, and its
\* latitude and longitude each differ from the input by at most half the
\* side of a final-level cell plus the rounding of the centre to 6 decimals
\* (half of 10^-6 degree), hence by less than 0.0001 degree.
C1_RoundTrip ==
  \A i \in RoundTrips :
    /\ calls[i + 1].out.status = "returned"
    /\ 2 * Dist(ToNumber(calls[i + 1].out.value.latitude), calls[i].lat)
         <= 2 * HalfCell + MicroDegree
    /\ 2 * Dist(ToNumber(calls[i + 1].out.value.longitude), calls[i].lon)
         <= 2 * HalfCell + MicroDegree
    /\ Dist(ToNumber(calls[i + 1].out.value.latitude), calls[i].lat) < TenThousandth
    /\ Dist(ToNumber(calls[i + 1].out.value.longitude), calls[i].lon) < TenThousandth

\* A round trip of a point on the edge of its cell whose centre is rounded
\* away from it: the latitude comes back more than half a cell off.
C1_Witness ==
  \E i \in RoundTrips :
    /\ calls[i + 1].out.status = "returned"
    /\ Dist(ToNumber(calls[i + 1].out.value.latitude), calls[i].lat) > HalfCell

---------------------------------------------------------------------------
(* C2: the concrete encode vector *)

IsTestPoint(c) ==
  /\ c.fn = "getDigiPin"
  /\ c.lat = MicroToNum(18968557)
  /\ c.lon = MicroToNum(72822191)

\* C2: getDigiPin(18.968557, 72.822191) returns exactly "4FK-5MK-9PPK".
C2_EncodeVector ==
  \A i \in DOMAIN calls :
    IsTestPoint(calls[i]) =>
      /\ calls[i].out.status = "returned"
      /\ calls[i].out.value =
           <<"4", "F", "K", "-", "5", "M", "K", "-", "9", "P", "P", "K">>

C2_Witness ==
  \E i \in DOMAIN calls : IsTestPoint(calls[i]) /\ calls[i].link = "first"

---------------------------------------------------------------------------
(* C3: the concrete decode vector *)

IsTestPin(c) ==
  /\ c.fn = "getLatLngFromDigiPin"
  /\ c.digiPin = <<"4", "F", "K", "-", "5", "M", "K", "-", "9", "P", "P", "K">>

---------------------------------------------------------------------------
(* C4: the format of a code *)

\* C4: for every in-range (lat, lon), getDigiPin returns a string of
\* exactly 12 characters whose characters at the zero-based positions 3 and
\* 7 are hyphens and whose other 10 characters are symbols of the alphabet.
C4_EncodeFormat ==
  \A i \in Encodes :
    (LatInRange(calls[i].lat) /\ LonInRange(calls[i].lon)) =>
      /\ calls[i].out.status = "returned"
      /\ WellFormed(calls[i].out.value)

\* A code returned for a point strictly inside the box, off the test vector.
C4_Witness ==
  \E i \in Encodes :
    /\ Lt(LatLo, calls[i].lat) /\ Lt(calls[i].lat, LatHi)
    /\ Lt(LonLo, calls[i].lon) /\ Lt(calls[i].lon, LonHi)
    /\ ~IsTestPoint(calls[i])
    /\ calls[i].out.status = "returned"
    /\ Len(calls[i].out.value) = 12

---------------------------------------------------------------------------
(* C5: out-of-range rejection *)

\* C5: a latitude below 2.5 or above 38.5 makes getDigiPin throw the error
\* that names Latitude, the value and [2.5, 38.5]; an in-range latitude
\* with a longitude below 63.5 or above 99.5 makes it throw the error that
\* names Longitude, the value and [63.5, 99.5]; no code is returned.
C5_OutOfRange ==
  \A i \in Encodes :
    /\ (Lt(calls[i].lat, LatLo) \/ Gt(calls[i].lat, LatHi)) =>
         /\ calls[i].out.status = "thrown"
         /\ calls[i].out.message =
              <<"Latitude ", calls[i].lat, " out of range [",
                LatLo.u, ", ", LatHi.u, "]">>
    /\ (/\ LatInRange(calls[i].lat)
        /\ Lt(calls[i].lon, LonLo) \/ Gt(calls[i].lon, LonHi)) =>
         /\ calls[i].out.status = "thrown"
         /\ calls[i].out.message =
              <<"Longitude ", calls[i].lon, " out of range [",
                LonLo.u, ", ", LonHi.u, "]">>

\* Both rejections have happened: a latitude below the box was refused in
\* one run, a longitude above it in another; here, the first of them.
C5_Witness ==
  \E i \in Encodes :
    /\ Lt(calls[i].lat, LatLo)
    /\ calls[i].out.status = "thrown"

---------------------------------------------------------------------------
(* C6: boundary inclusivity *)

OnEdge(lat, lon) ==
  \/ (lat \in {LatLo, LatHi} /\ LonInRange(lon))
  \/ (lon \in {LonLo, LonHi} /\ LatInRange(lat))

\* C6: every point on the edge of the bounding box, the corners included,
\* is accepted by getDigiPin and yields 10 alphabet symbols grouped 3-3-4.
C6_BoundaryInclusive ==
  \A i \in Encodes :
    OnEdge(calls[i].lat, calls[i].lon) =>
      /\ calls[i].out.status = "returned"
      /\ WellFormed(calls[i].out.value)
      /\ Len(Symbols(calls[i].out.value)) = DIGIPIN_LENGTH

\* The corner (38.5, 99.5) was encoded.
C6_Witness ==
  \E i \in Encodes :
    /\ calls[i].lat = LatHi
    /\ calls[i].lon = LonHi
    /\ calls[i].out.status = "returned"

---------------------------------------------------------------------------
(* C7: separator invariance *)

IsCode(s) == Len(s) = DIGIPIN_LENGTH /\ \A i \in DOMAIN s : s[i] \in Alphabet

\* The calls that decode the previous call's code with hyphens inserted.
Hyphenations ==
  { i \in Decodes : i > 1 /\ calls[i].link = "hyphenated" /\ IsCode(calls[i - 1].digiPin) }

\* C7: for every code c of 10 symbols and every s made from c by inserting
\* hyphens anywhere, getLatLngFromDigiPin(s) returns what
\* getLatLngFromDigiPin(c) returns.
C7_SeparatorInvariance ==
  \A i \in Hyphenations :
    /\ Symbols(calls[i].digiPin) = calls[i - 1].digiPin
    /\ calls[i - 1].out.status = "returned"
    /\ calls[i].out.status = "returned"
    /\ calls[i].out.value = calls[i - 1].out.value

\* A code decoded a second time with two hyphens that are not the display
\* grouping: one at the front and one at the end.
C7_Witness ==
  \E i \in Hyphenations :
    /\ Len(calls[i].digiPin) = DIGIPIN_LENGTH + 2
    /\ Head(calls[i].digiPin) = "-"
    /\ Last(calls[i].digiPin) = "-"
    /\ calls[i].out.status = "returned"

---------------------------------------------------------------------------
(* C8: invalid length *)

\* C8: whenever the number n of non-hyphen characters of the input is not
\* 10, getLatLngFromDigiPin throws the error that reports n and the
\* expected count 10, and returns no coordinates.
C8_InvalidLength ==
  \A i \in Decodes :
    LET n == Cardinality({ k \in DOMAIN calls[i].digiPin : calls[i].digiPin[k] # "-" })
    IN  n # 10 =>
          /\ calls[i].out.status = "thrown"
          /\ calls[i].out.message = <<"Invalid DIGIPIN length: ", n, ", expected ", 10>>

\* A hyphenated input with too few symbols was refused, and so was one with
\* too many; here, the first.
C8_Witness ==
  \E i \in Decodes :
    /\ \E k \in DOMAIN calls[i].digiPin : calls[i].digiPin[k] = "-"
    /\ Len(Symbols(calls[i].digiPin)) < 10
    /\ calls[i].out.status = "thrown"

---------------------------------------------------------------------------
(* C9: invalid symbol *)

\* The zero-based indices of the characters of s outside the alphabet.
Offending(s) == { k \in 0..(Len(s) - 1) : s[k + 1] \notin Alphabet }

Lowest(S) == CHOOSE k \in S : \A j \in S : k <= j

\* C9: when the hyphen-stripped input has 10 characters of which some are
\* not in the alphabet, getLatLngFromDigiPin throws the error that reports
\* the offending character of lowest index and its zero-based index in the
\* stripped sequence.
C9_InvalidSymbol ==
  \A i \in Decodes :
    LET pin == Symbols(calls[i].digiPin)
    IN  (Len(pin) = 10 /\ Offending(pin) # {}) =>
          /\ calls[i].out.status = "thrown"
          /\ calls[i].out.message =
               <<"Invalid character '", pin[Lowest(Offending(pin)) + 1],
                 "' at position ", Lowest(Offending(pin)), " in DIGIPIN">>

\* An input with two offending characters, the first of them behind a
\* hyphen, so that its index in the input and in the stripped form differ.
C9_Witness ==
  \E i \in Decodes :
    LET pin == Symbols(calls[i].digiPin)
    IN  /\ Len(pin) = 10
        /\ Cardinality(Offending(pin)) = 2
        /\ calls[i].digiPin[Lowest(Offending(pin)) + 1] # pin[Lowest(Offending(pin)) + 1]
        /\ calls[i].out.status = "thrown"

---------------------------------------------------------------------------
(* C10: the alphabet and its inverse map *)

Cells == (0..3) \X (0..3)

\* C10: the 4x4 table holds 16 pairwise distinct symbols, the map has
\* exactly 16 keys, and CHAR_TO_POSITION.get(DIGIPIN_GRID[row][col]) is
\* {row, col} for every row and column in 0..3.
C10_AlphabetBijection ==
  /\ \A p, q \in Cells :
       DIGIPIN_GRID[p[1] + 1][p[2] + 1] = DIGIPIN_GRID[q[1] + 1][q[2] + 1] => p = q
  /\ Cardinality(DOMAIN CHAR_TO_POSITION) = 16
  /\ \A p \in Cells :
       /\ DIGIPIN_GRID[p[1] + 1][p[2] + 1] \in DOMAIN CHAR_TO_POSITION
       /\ CHAR_TO_POSITION[DIGIPIN_GRID[p[1] + 1][p[2] + 1]] = [row |-> p[1], col |-> p[2]]

\* The map as it stands after a decoder has looked a code up in it.
C10_Witness ==
  /\ DOMAIN CHAR_TO_POSITION # {}
  /\ \E i \in Decodes : calls[i].out.status = "returned"

---------------------------------------------------------------------------
(* C11: the type of the decoder's result *)

\* C11: for every valid code, getLatLngFromDigiPin returns a record with
\* exactly the fields latitude and longitude, both of them numbers, not
\* display strings.
C11_NumericResult ==
  \A i \in Decodes :
    IsCode(Symbols(calls[i].digiPin)) =>
      /\ calls[i].out.status = "returned"
      /\ DOMAIN calls[i].out.value = {"latitude", "longitude"}
      /\ calls[i].out.value.latitude.type = "number"
      /\ calls[i].out.value.longitude.type = "number"

---------------------------------------------------------------------------
(* C13: case sensitivity *)

\* C13: a 10-character code in which a letter of the alphabet is replaced
\* by its lower-case form is rejected with the invalid-character error for
\* that character; no case is folded.
C13_CaseSensitive ==
  \A i \in Decodes :
    LET pin == Symbols(calls[i].digiPin)
    IN  \A p \in DOMAIN pin :
          (/\ Len(pin) = 10
           /\ pin[p] \in DOMAIN UpperCase
           /\ \A q \in DOMAIN pin : q # p => pin[q] \in Alphabet)
          => /\ calls[i].out.status = "thrown"
             /\ calls[i].out.message =
                  <<"Invalid character '", pin[p], "' at position ", p - 1, " in DIGIPIN">>

\* A grouped code whose seventh symbol was lower-cased has been refused.
C13_Witness ==
  \E i \in Decodes :
    LET pin == Symbols(calls[i].digiPin)
    IN  /\ Len(pin) = 10
        /\ Len(calls[i].digiPin) = 12
        /\ pin[7] \in DOMAIN UpperCase
        /\ \A q \in DOMAIN pin : q # 7 => pin[q] \in Alphabet
        /\ calls[i].out.status = "thrown"

---------------------------------------------------------------------------
(* C14: the order of the checks *)

\* C14: an input that breaks several preconditions fails with the error of
\* the first one checked and leaves no partial result: with the latitude
\* and the longitude both out of range getDigiPin reports the latitude;
\* with a stripped length other than 10 getLatLngFromDigiPin reports the
\* length even when characters outside the alphabet are present.
C14_ErrorPrecedence ==
  /\ \A i \in Encodes :
       (/\ Lt(calls[i].lat, LatLo) \/ Gt(calls[i].lat, LatHi)
        /\ Lt(calls[i].lon, LonLo) \/ Gt(calls[i].lon, LonHi))
       => /\ calls[i].out =
               Thrown(<<"Latitude ", calls[i].lat, " out of range [",
                        BOUNDS.minLat, ", ", BOUNDS.maxLat, "]">>)
          /\ calls[i].trace = << >>
  /\ \A i \in Decodes :
       LET pin == Symbols(calls[i].digiPin)
       IN  (Len(pin) # 10 /\ \E p \in DOMAIN pin : pin[p] \notin Alphabet)
           => /\ calls[i].out =
                   Thrown(<<"Invalid DIGIPIN length: ", Len(pin), ", expected ", 10>>)
              /\ calls[i].trace = << >>

\* Both kinds of doubly wrong input have been refused: a point north-east
\* of the box, and a code that is too long and holds a foreign character.
C14_Witness ==
  \/ \E i \in Encodes :
       /\ Gt(calls[i].lat, LatHi) /\ Gt(calls[i].lon, LonHi)
       /\ calls[i].out.status = "thrown"
  \/ \E i \in Decodes :
       LET pin == Symbols(calls[i].digiPin)
       IN  /\ Len(pin) > 10
           /\ \E p \in DOMAIN pin : pin[p] \notin Alphabet
           /\ calls[i].out.status = "thrown"

---------------------------------------------------------------------------
(* C18: the rounding of the decoded centre *)

\* Twice the distance, in units of 2^-21 * 10^-6 degree, between the
\* midpoint halves / 2 units and the value m * 10^-6 degree is
\* |halves * FracPerUnit - m * 2 * UnitNum|; the whole multiples of
\* 2 * UnitNum half units are taken out of both first.
RoundingError(halves, m) ==
  LET den == 2 * UnitNum
      q == halves \div den
      r == halves % den
      rest == m - q * FracPerUnit
      d == r * FracPerUnit - rest * den
  IN  IF rest < -1 \/ rest > FracPerUnit + 1 THEN den * FracPerUnit
      ELSE IF d < 0 THEN -d ELSE d

\* C18: for every valid code each coordinate returned is a whole number of
\* 10^-6 degree and lies within 5 * 10^-7 degree of the exact midpoint
\* (min + max) / 2 of the final cell: the midpoint rounded to 6 decimals.
C18_DecodeRounding ==
  \A i \in Decodes :
    IsCode(Symbols(calls[i].digiPin)) =>
      LET s == Last(calls[i].trace)
          v == calls[i].out.value
      IN  /\ calls[i].out.status = "returned"
          /\ s.i = 10
          /\ v.latitude.micro \in Int
          /\ v.longitude.micro \in Int
          /\ RoundingError(s.minLat + s.maxLat, v.latitude.micro) <= UnitNum
          /\ RoundingError(s.minLon + s.maxLon, v.longitude.micro) <= UnitNum

\* What the midpoint halves / 2 units has beyond a whole number of 10^-6
\* degree, in parts of 2 * UnitNum.
Beyond(halves) == (((halves % (2 * UnitNum)) * FracPerUnit)) % (2 * UnitNum)

\* A valid code has been decoded whose midpoint is no multiple of 10^-6
\* degree: the latitude was rounded up and the longitude rounded down.
C18_Witness ==
  \E i \in Decodes :
    /\ IsCode(Symbols(calls[i].digiPin))
    /\ calls[i].out.status = "returned"
    /\ LET s == Last(calls[i].trace)
       IN  /\ Beyond(s.minLat + s.maxLat) > UnitNum
           /\ Beyond(s.minLon + s.maxLon) > 0
           /\ Beyond(s.minLon + s.maxLon) < UnitNum

---------------------------------------------------------------------------
(* C19: the working rectangles nest *)

\* The side of a rectangle after n levels, 36 / 4^n degrees, in units.
SideAfter(n) == (BOUNDS.maxLat - BOUNDS.minLat) \div (GRID_SIZE ^ n)

\* Rectangle t is inside rectangle s and each of its sides is a quarter.
QuarterInside(t, s) ==
  /\ s.minLat <= t.minLat /\ t.maxLat <= s.maxLat
  /\ s.minLon <= t.minLon /\ t.maxLon <= s.maxLon
  /\ GRID_SIZE * (t.maxLat - t.minLat) = s.maxLat - s.minLat
  /\ GRID_SIZE * (t.maxLon - t.minLon) = s.maxLon - s.minLon

\* The rectangles of a loop nest: trace[n + 1] is the one after n levels.
Nested(trace) ==
  \A k \in DOMAIN trace :
    LET t == trace[k]
    IN  /\ k > 1 => QuarterInside(t, trace[k - 1])
        /\ BOUNDS.minLat <= t.minLat /\ t.maxLat <= BOUNDS.maxLat
        /\ BOUNDS.minLon <= t.minLon /\ t.maxLon <= BOUNDS.maxLon
        /\ t.maxLat - t.minLat = SideAfter(k - 1)
        /\ t.maxLon - t.minLon = SideAfter(k - 1)
        /\ t.minLat < t.maxLat
        /\ t.minLon < t.maxLon

---------------------------------------------------------------------------
(* C20: the encoder's and the decoder's rectangles *)

Rect(s) ==
  [minLat |-> s.minLat, maxLat |-> s.maxLat, minLon |-> s.minLon, maxLon |-> s.maxLon]

\* C20: for every in-range point and every k in 1..10, the rectangle the
\* decoder holds after the first k symbols of the point's code is the
\* rectangle the encoder held after level k.
C20_NarrowingAgrees ==
  \A i \in RoundTrips :
    (LatInRange(calls[i].lat) /\ LonInRange(calls[i].lon)) =>
      /\ Len(calls[i].trace) = DIGIPIN_LENGTH + 1
      /\ Len(calls[i + 1].trace) = DIGIPIN_LENGTH + 1
      /\ \A k \in 1..DIGIPIN_LENGTH :
           /\ calls[i].trace[k + 1].level = k
           /\ calls[i + 1].trace[k + 1].i = k
           /\ Rect(calls[i + 1].trace[k + 1]) = Rect(calls[i].trace[k + 1])

\* A point off the grid lines has made the round trip, its code using
\* more than one row and more than one column of the grid.
C20_Witness ==
  \E i \in RoundTrips :
    /\ LatInRange(calls[i].lat) /\ LonInRange(calls[i].lon)
    /\ calls[i].lat.f # 0 /\ calls[i].lon.f # 0
    /\ Len(calls[i + 1].trace) = DIGIPIN_LENGTH + 1
    /\ Cardinality({ calls[i].trace[k].row : k \in 2..(DIGIPIN_LENGTH + 1) }) > 2
    /\ Cardinality({ calls[i].trace[k].col : k \in 2..(DIGIPIN_LENGTH + 1) }) > 2

---------------------------------------------------------------------------
(* C17: NaN as a coordinate *)

\* C17: getDigiPin with a latitude that is NaN throws the out-of-range
\* error that names Latitude; with a latitude in range and a longitude
\* that is NaN it throws the one that names Longitude; it returns no code
\* and throws no other error.
C17_NaNRejected ==
  \A i \in Encodes :
    /\ IsNaN(calls[i].lat) =>
         calls[i].out =
           Thrown(<<"Latitude ", calls[i].lat, " out of range [",
                    BOUNDS.minLat, ", ", BOUNDS.maxLat, "]">>)
    /\ (LatInRange(calls[i].lat) /\ IsNaN(calls[i].lon)) =>
         calls[i].out =
           Thrown(<<"Longitude ", calls[i].lon, " out of range [",
                    BOUNDS.minLon, ", ", BOUNDS.maxLon, "]">>)

\* What the code does with NaN, each case in some call: a latitude NaN with
\* a longitude not out of range ends in the TypeError of the table lookup;
\* a latitude in range with a longitude NaN returns the two hyphens alone.
C17_TypeErrorReached ==
  \E i \in Encodes :
    /\ IsNaN(calls[i].lat)
    /\ calls[i].out = Thrown(TypeErrorOfUndefined)

C17_HyphensReturned ==
  \E i \in Encodes :
    /\ LatInRange(calls[i].lat) /\ IsNaN(calls[i].lon)
    /\ calls[i].out = Returned(<<"-", "-">>)

---------------------------------------------------------------------------
(* C12: codes and cells *)

\* The calls that decode a string of 10 symbols of the alphabet.
ValidDecodes == { i \in Decodes : IsCode(Symbols(calls[i].digiPin)) }

\* C12: every sequence of 10 alphabet symbols is accepted by
\* getLatLngFromDigiPin, the point returned lies in [2.5, 38.5] x
\* [63.5, 99.5], and two different sequences never give the same point.
C12_CodeToCell ==
  \A i \in ValidDecodes :
    /\ calls[i].out.status = "returned"
    /\ LatInRange(ToNumber(calls[i].out.value.latitude))
    /\ LonInRange(ToNumber(calls[i].out.value.longitude))
    /\ \A j \in ValidDecodes :
         (j > i /\ Symbols(calls[i].digiPin) # Symbols(calls[j].digiPin))
         => calls[i].out.value # calls[j].out.value

\* Two codes that differ in the last symbol only, cells side by side, have
\* both been decoded.
C12_Witness ==
  \E i \in ValidDecodes, j \in ValidDecodes :
    /\ calls[i].out.status = "returned" /\ calls[j].out.status = "returned"
    /\ Symbols(calls[i].digiPin)[DIGIPIN_LENGTH] # Symbols(calls[j].digiPin)[DIGIPIN_LENGTH]
    /\ SubSeq(Symbols(calls[i].digiPin), 1, DIGIPIN_LENGTH - 1)
         = SubSeq(Symbols(calls[j].digiPin), 1, DIGIPIN_LENGTH - 1)
    /\ calls[i].out.value.latitude = calls[j].out.value.latitude

---------------------------------------------------------------------------
(* C15: prefix locality *)

\* |a - b| <= side units, for two numbers.
Within(a, b, side) ==
  LET hi == IF Lt(a, b) THEN b ELSE a
      lo == IF Lt(a, b) THEN a ELSE b
  IN  \/ hi.u - lo.u < side
      \/ hi.u - lo.u = side /\ hi.f <= lo.f

\* The calls that encode a point of the bounding box.
InRangeEncodes ==
  { i \in Encodes : LatInRange(calls[i].lat) /\ LonInRange(calls[i].lon) }

\* C15: when the codes of two in-range points agree on their first k
\* symbols, k in 1..10, hyphens ignored, the latitudes of the points differ
\* by at most 36 / 4^k degrees and so do their longitudes.
C15_PrefixLocality ==
  \A i \in InRangeEncodes, j \in InRangeEncodes :
    /\ calls[i].out.status = "returned"
    /\ j > i =>
       LET ci == Symbols(calls[i].out.value)
           cj == Symbols(calls[j].out.value)
       IN  \A k \in 1..DIGIPIN_LENGTH :
             SubSeq(ci, 1, k) = SubSeq(cj, 1, k)
             => /\ Within(calls[i].lat, calls[j].lat, SideAfter(k))
                /\ Within(calls[i].lon, calls[j].lon, SideAfter(k))

\* Two different points have been encoded whose codes agree on the first
\* six symbols and differ after them.
C15_Witness ==
  \E i \in InRangeEncodes, j \in InRangeEncodes :
    /\ calls[i].out.status = "returned" /\ calls[j].out.status = "returned"
    /\ <<calls[i].lat, calls[i].lon>> # <<calls[j].lat, calls[j].lon>>
    /\ SubSeq(Symbols(calls[i].out.value), 1, 6) = SubSeq(Symbols(calls[j].out.value), 1, 6)
    /\ Symbols(calls[i].out.value) # Symbols(calls[j].out.value)

---------------------------------------------------------------------------
(* C16: calls in progress at once *)

\* What call c returns or throws when it runs alone, from entry to exit,
\* with the lookup map as the module built it.
Alone(c) ==
  IF c.fn = "getDigiPin" THEN getDigiPin(c.lat, c.lon)
  ELSE Decode(InitCharToPosition(EmptyMap, 0), c.digiPin)

\* C16: with the loop iterations of several calls interleaved in any
\* order, every call that is over, returned or failed, has the outcome and
\* has gone through the loop states it has when it runs alone, and the
\* lookup map is what the module built, whatever calls ran or failed.
C16_CallIndependence ==
  /\ CHAR_TO_POSITION = InitCharToPosition(EmptyMap, 0)
  /\ \A p \in DOMAIN calls :
       calls[p].out # Running => calls[p] = Alone(calls[p])

\* A second call of the same function has run from entry to return while
\* the first call was in the middle of its loop.
C16_Witness ==
  /\ Len(calls) >= 2
  /\ calls[1].out = Running
  /\ Len(calls[1].trace) > 3
  /\ Len(calls[1].trace) < DIGIPIN_LENGTH
  /\ calls[2].fn = calls[1].fn
  /\ calls[2].out.status = "returned"
  /\ calls[2].trace # calls[1].trace

---------------------------------------------------------------------------
(* C21: the symbol of each level *)

\* Floors tried beyond the ones a call can produce, on both sides of 0..3.
MaxFloor == 6

Clamp(x, lo, hi) == IF x < lo THEN lo ELSE IF x > hi THEN hi ELSE x

---------------------------------------------------------------------------
(* C22: the point stays in the working rectangle *)

\* C22: for every in-range point, after every level of getDigiPin the
\* rectangle holds the point, minLat <= lat <= maxLat and minLon <= lon <=
\* maxLon; lat = maxLat only for lat = 38.5 and lon = maxLon only for
\* lon = 99.5, so a point on an inner grid line belongs to the cell north
\* or east of the line.
C22_PointInRectangle ==
  \A i \in InRangeEncodes :
    /\ Len(calls[i].trace) = DIGIPIN_LENGTH + 1
    /\ \A k \in 2..(DIGIPIN_LENGTH + 1) :
         LET t == calls[i].trace[k]
             lat == calls[i].lat
             lon == calls[i].lon
         IN  /\ Le(OfUnits(t.minLat), lat) /\ Le(lat, OfUnits(t.maxLat))
             /\ Le(OfUnits(t.minLon), lon) /\ Le(lon, OfUnits(t.maxLon))
             /\ lat = OfUnits(t.maxLat) => lat = LatHi
             /\ lon = OfUnits(t.maxLon) => lon = LonHi

\* A point on an inner line of the first level in both directions has been
\* encoded: from that level on it is the south-west corner of its cell.
C22_Witness ==
  \E i \in InRangeEncodes :
    /\ Len(calls[i].trace) = DIGIPIN_LENGTH + 1
    /\ calls[i].lat # LatLo /\ calls[i].lon # LonLo
    /\ calls[i].lat = OfUnits(calls[i].trace[2].minLat)
    /\ calls[i].lon = OfUnits(calls[i].trace[2].minLon)
    /\ calls[i].lat = OfUnits(Last(calls[i].trace).minLat)

---------------------------------------------------------------------------
(* C23: reverse round trip *)

\* The reverse round trips made so far: call i decodes 10 symbols of the
\* alphabet, call i + 1 encodes the point it returned.
ReverseTrips ==
  { i \in ValidDecodes : i + 1 \in Encodes /\ calls[i + 1].link = "result" }

\* C23: for every sequence c of 10 alphabet symbols, getDigiPin of the
\* point getLatLngFromDigiPin(c) returns is c with hyphens after the 3rd
\* and the 6th symbol, and that point, the rounded centre, lies strictly
\* inside the final cell of c.
C23_ReverseRoundTrip ==
  \A i \in ReverseTrips :
    LET c == Symbols(calls[i].digiPin)
        s == Last(calls[i].trace)
        p == calls[i].out.value
    IN  /\ calls[i].out.status = "returned"
        /\ calls[i + 1].out =
             Returned(SubSeq(c, 1, 3) \o <<"-">> \o SubSeq(c, 4, 6) \o <<"-">>
                        \o SubSeq(c, 7, 10))
        /\ Lt(OfUnits(s.minLat), ToNumber(p.latitude))
        /\ Lt(ToNumber(p.latitude), OfUnits(s.maxLat))
        /\ Lt(OfUnits(s.minLon), ToNumber(p.longitude))
        /\ Lt(ToNumber(p.longitude), OfUnits(s.maxLon))

\* A code given without hyphens whose centre is no multiple of 10^-6
\* degree has made the reverse round trip and come back grouped.
C23_Witness ==
  \E i \in ReverseTrips :
    /\ Len(calls[i].digiPin) = DIGIPIN_LENGTH
    /\ calls[i + 1].out.status = "returned"
    /\ Len(calls[i + 1].out.value) = DIGIPIN_LENGTH + 2
    /\ Beyond(Last(calls[i].trace).minLat + Last(calls[i].trace).maxLat) > 0

---------------------------------------------------------------------------
(* C24: the copies of the encoder *)

\* C24: for every input (lat, lon) the three copies of getDigiPin reach
\* the same outcome: the same code returned or the same error thrown.
C24_CopiesAgree ==
  \A i \in DOMAIN calls, j \in DOMAIN calls :
    (calls[i].lat = calls[j].lat /\ calls[i].lon = calls[j].lon)
    => calls[i].out = calls[j].out

\* The copies do agree whenever the longitude is a number or the latitude
\* is rejected: the same code after the same rectangles, or the same error.
C24_CopiesAgreeOnNumbers ==
  \A i \in DOMAIN calls, j \in DOMAIN calls :
    (~IsNaN(calls[i].lon) \/ calls[i].out.status = "thrown")
    => /\ calls[i].out = calls[j].out
       /\ Len(calls[i].trace) = Len(calls[j].trace)
       /\ \A k \in DOMAIN calls[i].trace : calls[i].trace[k] = calls[j].trace[k]

\* The case that separates the copies: an accepted latitude with the
\* longitude NaN, where the array joins to "--" and the string copies
\* hold the text of undefined ten times.
C24_SeparatingCase ==
  /\ Len(calls) = 3
  /\ IsNaN(calls[1].lon)
  /\ calls[1].out = Returned(<<"-", "-">>)
  /\ calls[2].out = calls[3].out
  /\ Len(calls[2].out.value) = DIGIPIN_LENGTH * Len(UndefinedText) + 2

---------------------------------------------------------------------------
(* C25: the hidden grid stays empty *)

\* The events whose listeners redraw the grid.
GridEvents == {"zoomend", "moveend", "toggle-grid"}

\* The cells of the current view at the current grid level.
CurrentCells(v) ==
  calculateGridCells(getBounds(v.view), v.view.zoom, v.currentGridLevel)

\* C25: once the toggle-grid button has hidden the grid its layer holds no
\* cell, zoomend and moveend leave it hidden and empty and only the button
\* shows it again; after zoomend, moveend or the button, a visible grid
\* holds exactly the cells of the current view at the current grid level.
C25_HiddenGridStaysEmpty ==
  [][ /\ (~ visualizer'.gridVisible) => visualizer'.gridLayer = << >>
      /\ (~ visualizer.gridVisible /\ visualizer'.event \in {"zoomend", "moveend"})
         => (~ visualizer'.gridVisible /\ visualizer'.gridLayer = << >>)
      /\ (visualizer'.gridVisible # visualizer.gridVisible)
         => visualizer'.event = "toggle-grid"
      /\ (visualizer'.gridVisible /\ visualizer'.event \in GridEvents)
         => visualizer'.gridLayer = CurrentCells(visualizer')
    ]_vars

\* The grid is hidden, the map has been zoomed to another level since and
\* zoomend has been handled: the level followed the zoom, the layer did not.
C25_Witness ==
  /\ ~ visualizer.gridVisible
  /\ visualizer.event = "zoomend"
  /\ visualizer.currentGridLevel = LevelOfZoom(MaxZoom)
  /\ CurrentCells(visualizer) # << >>
  /\ visualizer.gridLayer = << >>

=============================================================================
